---- MODULE Spec2Model ----
(***************************************************************************)
(* Model of the contact-form backend (server.js): the POST /submit-contact *)
(* pipeline: CORS middleware, per-IP rate limiter, field validation,       *)
(* reCAPTCHA verification, and the dispatch of two emails through Resend   *)
(* or an SMTP transport.                                                   *)
(*                                                                         *)
(* Strings are run-length encoded: a string is a sequence of runs          *)
(* <<c, n>> (n >= 1 copies of the character c, adjacent runs differ in c), *)
(* so that the length limits 50, 100 and 1000 of the validation rules are  *)
(* kept as they are in the code.  Characters stand for their class:        *)
(* "a".."z" and "A".."Z" letters, "e'" an accented letter, " " whitespace, *)
(* "1" a digit.                                                            *)
(***************************************************************************)
EXTENDS Integers, Sequences, FiniteSets, TLC

VARIABLES
    env,    \* process.env, read at startup and never written
    hits,   \* the rate limiter's store: client IP -> requests in the current window
    reqs,   \* the requests in flight, one record per connection
    vcall,  \* a direct call of verifyRecaptcha (unit level), outside any request
    audit   \* per client and window, the outbound calls made (kept under SpecLoad)

vars == <<env, hits, reqs, vcall, audit>>

----------------------------------------------------------------------------
(* Strings *)

RECURSIVE StrLen(_)
StrLen(s) == IF s = <<>> THEN 0 ELSE s[1][2] + StrLen(Tail(s))

\* Run-length encoding of a plain sequence of characters.
RECURSIVE Enc(_)
Enc(cs) ==
    IF cs = <<>> THEN <<>>
    ELSE LET r == Enc(Tail(cs))
         IN  IF r # <<>> /\ r[1][1] = cs[1]
             THEN <<(<<cs[1], r[1][2] + 1>>)>> \o Tail(r)
             ELSE <<(<<cs[1], 1>>)>> \o r

\* The plain sequence of characters of a string.
RECURSIVE Dec(_)
Dec(s) ==
    IF s = <<>> THEN <<>>
    ELSE IF s[1][2] = 1 THEN <<s[1][1]>> \o Dec(Tail(s))
         ELSE <<s[1][1]>> \o Dec(<<(<<s[1][1], s[1][2] - 1>>)>> \o Tail(s))

Rep(c, n) == <<(<<c, n>>)>>

IsSpace(c) == c = " "

RECURSIVE TrimLeft(_)
TrimLeft(s) == IF s # <<>> /\ IsSpace(s[1][1]) THEN TrimLeft(Tail(s)) ELSE s

RECURSIVE TrimRight(_)
TrimRight(s) ==
    IF s # <<>> /\ IsSpace(s[Len(s)][1]) THEN TrimRight(SubSeq(s, 1, Len(s) - 1)) ELSE s

\* String.prototype.trim, the .trim() sanitizer
Trim(s) == TrimRight(TrimLeft(s))

LowerLetters == {"a", "b", "c", "d", "e", "g", "h", "i", "j", "l", "m", "n", "o", "p", "r", "s",
                 "t", "u", "x", "z"}
UpperLetters == {"A", "C", "G", "H", "L", "N", "X"}
Letters == LowerLetters \cup UpperLetters

ToLowerChar(c) ==
    CASE c = "A" -> "a"
      [] c = "X" -> "x"
      [] c = "G" -> "g"
      [] c = "C" -> "c"
      [] c = "H" -> "h"
      [] c = "L" -> "l"
      [] c = "N" -> "n"
      [] OTHER -> c

RECURSIVE ToLower(_)
ToLower(cs) == IF cs = <<>> THEN <<>> ELSE <<ToLowerChar(cs[1])>> \o ToLower(Tail(cs))

\* The characters a name may hold: /^[a-zA-ZÀ-ÿ\s'-]+$/
NameChars == Letters \cup {"e'", " ", "'", "-"}

MatchesName(s) == s # <<>> /\ \A i \in 1..Len(s) : s[i][1] \in NameChars

IsLength(s, min, max) == StrLen(s) >= min /\ StrLen(s) <= max

----------------------------------------------------------------------------
(* The request body *)

Fields == {"First-Name", "Last-Name", "email", "field", "name-2", "field-2",
           "checkbox", "g-recaptcha-response"}

\* req.body[f] as a validator sees it: a missing field reads as undefined,
\* which the validators take as the empty string.
Has(b, f) == f \in DOMAIN b
Val(b, f) == IF Has(b, f) THEN b[f] ELSE <<>>

----------------------------------------------------------------------------
(* Email addresses: validator.js isEmail and normalizeEmail, on the plain *)
(* characters of the string                                               *)

RECURSIVE LastIndexOf(_, _)
LastIndexOf(cs, c) ==
    IF cs = <<>> THEN 0
    ELSE IF cs[Len(cs)] = c THEN Len(cs)
         ELSE LastIndexOf(SubSeq(cs, 1, Len(cs) - 1), c)

RECURSIVE SplitOn(_, _)
SplitOn(cs, c) ==
    LET i == LastIndexOf(cs, c)
    IN  IF i = 0 THEN <<cs>>
        ELSE Append(SplitOn(SubSeq(cs, 1, i - 1), c), SubSeq(cs, i + 1, Len(cs)))

RECURSIVE Without(_, _)
Without(cs, c) ==
    IF cs = <<>> THEN <<>>
    ELSE IF cs[1] = c THEN Without(Tail(cs), c) ELSE <<cs[1]>> \o Without(Tail(cs), c)

AllIn(cs, S) == \A i \in 1..Len(cs) : cs[i] \in S

\* email.split('@'): the domain is the last piece, the user the rest
UserOf(cs) ==
    LET i == LastIndexOf(cs, "@") IN IF i = 0 THEN <<>> ELSE SubSeq(cs, 1, i - 1)
DomainOf(cs) ==
    LET i == LastIndexOf(cs, "@") IN IF i = 0 THEN cs ELSE SubSeq(cs, i + 1, Len(cs))

UserChars == Letters \cup {"1", "+", "-", "'"}
HostChars == Letters \cup {"1", "-"}

\* isFQDN with require_tld
IsFQDN(d) ==
    LET parts == SplitOn(d, ".")
        tld   == parts[Len(parts)]
    IN  /\ Len(parts) >= 2
        /\ Len(tld) >= 2 /\ AllIn(tld, Letters)
        /\ \A i \in 1..Len(parts) :
              /\ parts[i] # <<>>
              /\ AllIn(parts[i], HostChars)
              /\ parts[i][1] # "-" /\ parts[i][Len(parts[i])] # "-"

\* isEmail, default options: an unquoted user of dot-separated atoms at a FQDN
IsEmail(s) ==
    LET cs    == Dec(s)
        user  == UserOf(cs)
        atoms == SplitOn(user, ".")
    IN  /\ LastIndexOf(cs, "@") # 0
        /\ IsFQDN(DomainOf(cs))
        /\ \A i \in 1..Len(atoms) : atoms[i] # <<>> /\ AllIn(atoms[i], UserChars)

GmailCom == <<"g", "m", "a", "i", "l", ".", "c", "o", "m">>
GooglemailCom == <<"g", "o", "o", "g", "l", "e", "m", "a", "i", "l", ".", "c", "o", "m">>

\* normalizeEmail, default options: the domain is lowercased; a Gmail user
\* loses its +subaddress and its dots and googlemail.com becomes gmail.com;
\* any other user is lowercased.  (The subaddress rules of the other
\* providers it knows apply to domains no submission here uses.)
NormalizeEmail(s) ==
    LET cs     == Dec(s)
        user   == UserOf(cs)
        domain == ToLower(DomainOf(cs))
        gUser  == ToLower(Without(SplitOn(user, "+")[1], "."))
    IN  IF domain \in {GmailCom, GooglemailCom}
        THEN Enc(gUser \o <<"@">> \o GmailCom)
        ELSE Enc(ToLower(user) \o <<"@">> \o domain)

----------------------------------------------------------------------------
(* contactFormValidation: the chain of each field, in the order of the     *)
(* array.  A chain runs its sanitizers and validators in order on the      *)
(* field's value and records one error per failing validator.              *)

Err(path, msg) == [path |-> path, msg |-> msg]

NameMin == 2
NameMax == 50
InstitutionMin == 2
InstitutionMax == 100
MessageMax == 1000

NameErrors(b, path, lengthMsg, charsMsg) ==
    LET v == Trim(Val(b, path))
    IN  (IF IsLength(v, NameMin, NameMax) THEN <<>> ELSE <<Err(path, lengthMsg)>>)
        \o
        (IF MatchesName(v) THEN <<>> ELSE <<Err(path, charsMsg)>>)

EmailErrors(b) ==
    IF IsEmail(Val(b, "email")) THEN <<>>
    ELSE <<Err("email", "Please provide a valid email address")>>

\* .notEmpty() with no .trim() before it: the raw value must not be ''
JobTitleErrors(b) ==
    IF Val(b, "field") # <<>> THEN <<>>
    ELSE <<Err("field", "Please select your job title")>>

InstitutionErrors(b) ==
    IF IsLength(Trim(Val(b, "name-2")), InstitutionMin, InstitutionMax) THEN <<>>
    ELSE <<Err("name-2", "Healthcare institution name must be between 2 and 100 characters")>>

\* .optional(): an absent field is not validated at all
MessageErrors(b) ==
    IF ~Has(b, "field-2") \/ IsLength(Trim(b["field-2"]), 0, MessageMax) THEN <<>>
    ELSE <<Err("field-2", "Message must not exceed 1000 characters")>>

On == Enc(<<"o", "n">>)

ConsentErrors(b) ==
    IF Val(b, "checkbox") = On THEN <<>>
    ELSE <<Err("checkbox", "You must agree to be contacted by the Jaide team")>>

TokenErrors(b) ==
    IF Val(b, "g-recaptcha-response") # <<>> THEN <<>>
    ELSE <<Err("g-recaptcha-response", "Please complete the reCAPTCHA verification")>>

\* validationResult(req).array()
contactFormValidation(b) ==
    NameErrors(b, "First-Name", "First name must be between 2 and 50 characters",
               "First name contains invalid characters")
    \o NameErrors(b, "Last-Name", "Last name must be between 2 and 50 characters",
                  "Last name contains invalid characters")
    \o EmailErrors(b)
    \o JobTitleErrors(b)
    \o InstitutionErrors(b)
    \o MessageErrors(b)
    \o ConsentErrors(b)
    \o TokenErrors(b)

\* req.body once the chains have run: the sanitizers write back what they made
\* of each field they were given.  (The handler reads req.body only when no
\* chain reported an error, and then "field-2" is the one field that can be
\* absent: .optional() leaves it alone.)
Sanitized(b) ==
    [f \in DOMAIN b |->
        CASE f \in {"First-Name", "Last-Name", "name-2", "field-2"} -> Trim(b[f])
          [] f = "email" -> NormalizeEmail(b[f])
          [] OTHER -> b[f]]

----------------------------------------------------------------------------
(* The configuration and the inputs *)

\* 'contact@jaide.care', the address mailToTeam falls back to
DefaultEmailTo ==
    Enc(<<"c", "o", "n", "t", "a", "c", "t", "@", "j", "a", "i", "d", "e", ".", "c", "a", "r", "e">>)
\* an EMAIL_TO of the deployment
OpsEmailTo ==
    Enc(<<"o", "p", "s", "@", "j", "a", "i", "d", "e", ".", "c", "a", "r", "e">>)

\* process.env: an unset variable is "" (falsy, as undefined is)
Envs ==
    [EMAIL_SERVICE : {"resend", "gmail", "smtp"},
     RESEND_API_KEY : {"", "re_key"},
     RECAPTCHA_SECRET_KEY : {"", "secret"},
     EMAIL_TO : {<<>>, OpsEmailTo}]

\* the origin option of cors(): ALLOWED_ORIGINS is left unset here
AllowedOrigins == {"http://localhost:3000", "https://jaide.care"}
Origins == {"https://jaide.care", "https://evil.example"}

IPs == {"10.0.0.1", "10.0.0.2"}
Conns == {"c1"}

\* rateLimit({windowMs: 15 * 60 * 1000, max: 5})
RateMax == 5
\* the arrivals of one client the model follows within one window
MaxHits == 6

Baseline ==
    ("First-Name" :> Enc(<<"A", "n", "a">>))
    @@ ("Last-Name" :> Enc(<<"d", "e", " ", "l", "a", "-", "C", "e'", "l">>))
    @@ ("email" :> Enc(<<"a", "n", "a", "@", "x", ".", "c", "o">>))
    @@ ("field" :> Enc(<<"n", "u", "r", "s", "e">>))
    @@ ("name-2" :> Enc(<<"C", "i", "t", "y", " ", "H">>))
    @@ ("field-2" :> Enc(<<"h", "i">>))
    @@ ("checkbox" :> On)
    @@ ("g-recaptcha-response" :> Rep("t", 3))

\* what a client may send in one field in place of the baseline's value
Variants(f) ==
    CASE f = "First-Name" ->
            {Rep("a", NameMax + 1), Enc(<<" ", "a", "n", " ">>), Enc(<<" ", "a", " ">>),
             Enc(<<"a", "n", "1">>)}
      [] f = "Last-Name" -> {<<>>, Enc(<<"a", "1">>)}
      [] f = "email" ->
            {Enc(<<"A", "N", "A", "@", "X", ".", "c", "o">>),
             Enc(<<"a", ".", "n", "+", "x", "@", "G", "m", "a", "i", "l", ".", "c", "o", "m">>),
             Enc(<<"a", "n", "a", "@", "x", ".", "c", "o", " ">>),
             Enc(<<"a", "n", "a", "x", ".", "c", "o">>)}
      [] f = "field" -> {<<>>, Rep(" ", 1)}
      [] f = "name-2" -> {Rep("a", 1), Rep("a", InstitutionMax + 1), Enc(<<" ", "a", "b", " ">>)}
      [] f = "field-2" ->
            {<<>>, Rep("a", MessageMax + 1), Rep("a", MessageMax) \o Rep(" ", 1)}
      [] f = "checkbox" -> {Enc(<<"o", "f", "f">>)}
      [] f = "g-recaptcha-response" -> {<<>>}

Drop(b, f) == [g \in DOMAIN b \ {f} |-> b[g]]

\* the submissions: the baseline, and the baseline with one field replaced or
\* left out
Bodies ==
    {Baseline}
    \cup UNION {{[Baseline EXCEPT ![f] = v] : v \in Variants(f)} : f \in Fields}
    \cup {Drop(Baseline, f) : f \in Fields}

----------------------------------------------------------------------------
(* The verification client *)

\* what axios.post may do: reject (no answer, or an answer outside 2xx), or
\* resolve with the body of the answer as response.data: the service's JSON
\* object, JSON of another shape, or text that is no JSON (kept as a string)
ServiceData ==
    {[type |-> "object", success |-> "true", codes |-> <<>>],
     [type |-> "object", success |-> "false", codes |-> <<"invalid-input-response">>],
     [type |-> "object", success |-> "undefined", codes |-> <<>>],
     [type |-> "string", success |-> "undefined", codes |-> <<>>],
     [type |-> "null", success |-> "undefined", codes |-> <<>>]}

NoData == [type |-> "none", success |-> "undefined", codes |-> <<>>]

AxiosOutcomes ==
    {[kind |-> "reject", why |-> w, data |-> NoData] : w \in {"network", "status"}}
    \cup {[kind |-> "resolve", why |-> "", data |-> d] : d \in ServiceData}

\* no call made, and a call not yet settled
NotCalled == [kind |-> "none", why |-> "", data |-> NoData]
InFlight == [kind |-> "pending", why |-> "", data |-> NoData]

\* the value of the catch block of verifyRecaptcha
RequestFailed == [type |-> "object", success |-> "false", codes |-> <<"request-failed">>]

\* verifyRecaptcha up to its await: TRUE when the secret key is missing and the
\* function throws (into its own catch) before any call is made
SecretKeyMissing == env.RECAPTCHA_SECRET_KEY = ""

\* verifyRecaptcha from its await on: what it returns when axios.post settles
\* with outcome o for the token
verifyRecaptchaReturn(token, o) ==
    IF o.kind = "reject" THEN RequestFailed ELSE o.data

----------------------------------------------------------------------------
(* The request handler *)

NoResponse == [status |-> 0, success |-> FALSE, message |-> "", errors |-> <<>>]

Idle ==
    [pc |-> "idle", ip |-> "", origin |-> "", acao |-> FALSE,
     raw |-> <<>>, body |-> <<>>, rateLimit |-> 0, stages |-> <<>>,
     errors |-> <<>>, verifyCalls |-> 0, axiosCalls |-> 0, axios |-> NotCalled,
     recaptchaResult |-> NoData,
     dispatches |-> 0, transportVerify |-> "none", sends |-> <<>>,
     caught |-> "", res |-> NoResponse]

Respond(r, status, success, message, errors) ==
    [r EXCEPT !.res = [status |-> status, success |-> success,
                       message |-> message, errors |-> errors]]

GenericError == "Sorry, there was an error processing your request. Please try again later."

\* the catch block of the handler: the error is logged, the response is fixed
Catch(r, error) ==
    [Respond(r, 500, FALSE, GenericError, <<>>) EXCEPT !.caught = error, !.pc = "done"]

\* the limiter's answer
TooMany(r) ==
    [Respond(r, 429, FALSE, "Too many form submissions from this IP, please try again later.", <<>>)
        EXCEPT !.pc = "done"]

\* Limited with the comparison one off: the sixth request still passes
LimitedOffByOne(totalHits) == totalHits > RateMax + 1

\* Limited with the number of sends taken for the number of requests
LimitedAtTen(totalHits) == totalHits > 2 * RateMax

\* max: 5: the request is refused when this client's count in the window is above it
Limited(totalHits) == totalHits > RateMax

\* the cors middleware with a list as origin: the Access-Control-Allow-Origin
\* header is set when the request's Origin is in the list; the request goes on
\* to the next middleware either way
CorsAllows(origin) == origin \in AllowedOrigins

\* UserTo reading the address as submitted, not as normalizeEmail left it
UserToRaw(r) == r.raw["email"]

\* mailToTeam.to
TeamTo == IF env.EMAIL_TO # <<>> THEN env.EMAIL_TO ELSE DefaultEmailTo
\* mailToUser.to: email, destructured from req.body
UserTo(r) == r.body["email"]

Mail(to, via) == [to |-> to, via |-> via, st |-> "pending"]

\* the two sends of one Promise.all([...]): both are started before it is awaited
StartSends(r, via) ==
    [r EXCEPT !.sends = <<Mail(TeamTo, via), Mail(UserTo(r), via)>>, !.pc = "sending"]

\* Dispatch with the sends started while transporter.verify() is still pending
DispatchNoVerify(r) ==
    LET d == [r EXCEPT !.dispatches = @ + 1, !.stages = Append(@, "dispatch")]
    IN  IF env.EMAIL_SERVICE = "resend"
        THEN IF env.RESEND_API_KEY = ""
             THEN Catch(d, "Resend service not configured. Please set RESEND_API_KEY in your .env file.")
             ELSE StartSends(d, "resend")
        ELSE StartSends([d EXCEPT !.transportVerify = "pending"], "smtp")

\* lines 258-285 up to the first await
Dispatch(r) ==
    LET d == [r EXCEPT !.dispatches = @ + 1, !.stages = Append(@, "dispatch")]
    IN  IF env.EMAIL_SERVICE = "resend"
        THEN IF env.RESEND_API_KEY = ""
             THEN Catch(d, "Resend service not configured. Please set RESEND_API_KEY in your .env file.")
             ELSE StartSends(d, "resend")
        ELSE [d EXCEPT !.transportVerify = "pending", !.pc = "smtpVerify"]

\* AfterVerification refusing only a success that is false itself
AfterVerificationStrict(r, result) ==
    LET v == [r EXCEPT !.recaptchaResult = result]
    IN  IF result.type = "null"
        THEN Catch(v, "TypeError: Cannot read properties of null (reading 'success')")
        ELSE IF result.success = "false"
             THEN [Respond(v, 400, FALSE, "reCAPTCHA verification failed. Please try again.",
                           <<[msg |-> "reCAPTCHA verification failed"]>>)
                      EXCEPT !.pc = "done"]
             ELSE Dispatch(v)

\* lines 160-167: the handler once verifyRecaptcha has returned result
AfterVerification(r, result) ==
    LET v == [r EXCEPT !.recaptchaResult = result]
    IN  IF result.type = "null"
        THEN Catch(v, "TypeError: Cannot read properties of null (reading 'success')")
        ELSE IF result.success # "true"
             THEN [Respond(v, 400, FALSE, "reCAPTCHA verification failed. Please try again.",
                           <<[msg |-> "reCAPTCHA verification failed"]>>)
                      EXCEPT !.pc = "done"]
             ELSE Dispatch(v)

\* lines 156-158: the call of verifyRecaptcha, up to the await of axios.post
Verify(r) ==
    LET v == [r EXCEPT !.verifyCalls = @ + 1, !.stages = Append(@, "verification")]
    IN  IF SecretKeyMissing
        THEN AfterVerification(v, RequestFailed)
        ELSE [v EXCEPT !.axiosCalls = @ + 1, !.axios = InFlight, !.pc = "verifying"]

\* AfterValidation answering 400 without returning
AfterValidationNoReturn(r) ==
    IF r.errors # <<>>
    THEN Verify(Respond(r, 400, FALSE, "Validation failed", r.errors))
    ELSE Verify(r)

\* lines 146-154: the validation result decides
AfterValidation(r) ==
    IF r.errors # <<>>
    THEN [Respond(r, 400, FALSE, "Validation failed", r.errors) EXCEPT !.pc = "done"]
    ELSE Verify(r)

\* the route of POST /submit-contact: limiter, contactFormValidation, handler
Route(r, totalHits) ==
    LET l == [r EXCEPT !.rateLimit = totalHits, !.stages = Append(@, "limiter")]
    IN  IF Limited(totalHits)
        THEN TooMany(l)
        ELSE AfterValidation([l EXCEPT !.errors = contactFormValidation(l.raw),
                                       !.body = Sanitized(l.raw),
                                       !.stages = Append(@, "validation")])

----------------------------------------------------------------------------
(* Actions *)

\* A request arrives on connection c and runs up to its first await.
Arrive(c, ip, origin, b) ==
    /\ reqs[c].pc = "idle"
    /\ hits[ip] < MaxHits
    /\ hits' = [hits EXCEPT ![ip] = @ + 1]
    /\ reqs' = [reqs EXCEPT ![c] =
                  Route([Idle EXCEPT !.ip = ip, !.origin = origin,
                                     !.acao = CorsAllows(origin), !.raw = b,
                                     !.stages = <<"cors">>],
                        hits[ip] + 1)]
    /\ UNCHANGED <<env, vcall>>

\* axios.post settles and the handler runs on to its next await.
AxiosSettle(c, o) ==
    /\ reqs[c].pc = "verifying"
    /\ reqs' = [reqs EXCEPT ![c] =
                  AfterVerification([@ EXCEPT !.axios = o],
                                    verifyRecaptchaReturn(@.body["g-recaptcha-response"], o))]
    /\ UNCHANGED <<env, hits, vcall>>

\* transporter.verify() settles.
TransportVerifySettle(c, ok) ==
    /\ reqs[c].pc = "smtpVerify"
    /\ reqs' = [reqs EXCEPT ![c] =
                  IF ok THEN StartSends([@ EXCEPT !.transportVerify = "ok"], "smtp")
                  ELSE Catch([@ EXCEPT !.transportVerify = "failed"], "Invalid login")]
    /\ UNCHANGED <<env, hits, vcall>>

\* how one send may end: accepted; (Resend) resolved with {data: null, error};
\* rejected, the promise of the send rejects
SendOutcomes(via) ==
    IF via = "resend" THEN {"accepted", "error", "rejected"} ELSE {"accepted", "rejected"}

Pending(r) == {i \in 1..Len(r.sends) : r.sends[i].st = "pending"}

\* await Promise.all([...]) and what follows it: the first rejection is thrown
\* into the catch block; when every send has resolved the handler answers 200
Settled(r) ==
    LET p == IF Pending(r) = {} THEN [r EXCEPT !.pc = "done"] ELSE r
    IN  IF r.res.status # 0 THEN p
        ELSE IF \E i \in 1..Len(r.sends) : r.sends[i].st = "rejected"
             THEN [Catch(p, "send failed") EXCEPT !.pc = p.pc]
             ELSE IF Pending(r) = {}
                  THEN Respond(p, 200, TRUE,
                               "Thank you for your submission. We will get in touch soon!", <<>>)
                  ELSE p

\* One of the two sends settles.
SendSettle(c, i, outcome) ==
    /\ reqs[c].pc = "sending"
    /\ i \in Pending(reqs[c])
    /\ outcome \in SendOutcomes(reqs[c].sends[i].via)
    /\ reqs' = [reqs EXCEPT ![c] = Settled([@ EXCEPT !.sends[i].st = outcome])]
    /\ UNCHANGED <<env, hits, vcall>>

\* The response is out and nothing is pending: the connection is free again.
Close(c) ==
    /\ reqs[c].pc = "done"
    /\ reqs' = [reqs EXCEPT ![c] = Idle]
    /\ UNCHANGED <<env, hits, vcall>>

\* The window of a client ends: the store drops its count.
WindowExpire(ip) ==
    /\ hits[ip] > 0
    /\ hits' = [hits EXCEPT ![ip] = 0]
    /\ UNCHANGED <<env, reqs, vcall>>

NoCall == [pc |-> "idle", token |-> <<>>, axios |-> NotCalled, result |-> NoData]

----------------------------------------------------------------------------
(* The account of outbound calls.  For each client, made[k] counts the     *)
(* verification calls and the sends of the requests that arrived k-1       *)
(* windows ago (made[1]: in the current window), whenever they are made;   *)
(* an entry of a past window is closed, and cleared, once none of its      *)
(* requests is in flight.  late counts the calls that requests of past     *)
(* windows made while the client's current window is open.  age[c] is the  *)
(* number of window ends the request on connection c has outlived.         *)

\* the window ends a request in flight may outlive
MaxSpan == 1

NoOps == [verify |-> 0, sends |-> 0]
Plus(a, b) == [verify |-> a.verify + b.verify, sends |-> a.sends + b.sends]

NoAudit(conns) ==
    [made |-> [ip \in IPs |-> [k \in 1..(MaxSpan + 1) |-> NoOps]],
     late |-> [ip \in IPs |-> NoOps],
     age  |-> [c \in conns |-> 0]]

\* the calls a step of a request made: r before the step, r2 after it
Ops(r, r2) ==
    IF r2.pc = "idle" THEN NoOps
    ELSE [verify |-> r2.verifyCalls - r.verifyCalls, sends |-> Len(r2.sends) - Len(r.sends)]

\* the requests of a client in flight that have outlived a window ends
StillServed(rs, ages, ip, a) ==
    {c \in DOMAIN rs : rs[c].pc # "idle" /\ rs[c].ip = ip /\ ages[c] = a}

\* a step of the request on connection c is entered in the account
Account(c) ==
    LET r   == reqs[c]
        r2  == reqs'[c]
        ops == Ops(r, r2)
        a   == IF r.pc = "idle" THEN 0 ELSE audit.age[c]
        ip  == IF r2.pc = "idle" THEN r.ip ELSE r2.ip
    IN  audit' =
          IF r2.pc = "idle"
          THEN [audit EXCEPT
                  !.age[c] = 0,
                  !.made[ip][a + 1] =
                      IF a > 0 /\ StillServed(reqs', audit.age, ip, a) = {} THEN NoOps ELSE @]
          ELSE [audit EXCEPT
                  !.age[c] = a,
                  !.made[ip][a + 1] = Plus(@, ops),
                  !.late[ip] = IF a > 0 /\ hits'[ip] > 0 THEN Plus(@, ops) ELSE @]

\* the window of a client ends: its account moves one window back
AccountExpiry(ip) ==
    LET mine == {c \in DOMAIN reqs : reqs[c].pc # "idle" /\ reqs[c].ip = ip}
    IN  /\ \A c \in mine : audit.age[c] < MaxSpan
        /\ audit' = [audit EXCEPT
              !.made[ip] = [k \in 1..(MaxSpan + 1) |->
                              IF k = 1 \/ StillServed(reqs, audit.age, ip, k - 2) = {}
                              THEN NoOps ELSE @[k - 1]],
              !.late[ip] = NoOps,
              !.age = [c \in DOMAIN @ |-> IF c \in mine THEN @[c] + 1 ELSE @[c]]]

\* the calls made on behalf of a client while its current window is open
Live(ip) == Plus(audit.made[ip][1], audit.late[ip])

Init ==
    /\ env \in Envs
    /\ hits = [ip \in IPs |-> 0]
    /\ reqs = [c \in Conns |-> Idle]
    /\ vcall = NoCall
    /\ audit = NoAudit(Conns)

Next ==
    \/ \E c \in Conns, ip \in IPs, origin \in Origins, b \in Bodies :
          Arrive(c, ip, origin, b) /\ UNCHANGED audit
    \/ \E c \in Conns, o \in AxiosOutcomes : AxiosSettle(c, o) /\ UNCHANGED audit
    \/ \E c \in Conns, ok \in BOOLEAN : TransportVerifySettle(c, ok) /\ UNCHANGED audit
    \/ \E c \in Conns, i \in 1..2, outcome \in {"accepted", "error", "rejected"} :
          SendSettle(c, i, outcome) /\ UNCHANGED audit
    \/ \E c \in Conns : Close(c) /\ UNCHANGED audit
    \/ \E ip \in IPs : WindowExpire(ip) /\ UNCHANGED audit

Spec == Init /\ [][Next]_vars

----------------------------------------------------------------------------
(* verifyRecaptcha called on its own, with any token *)

Tokens == {<<>>, Rep("t", 3), Rep(" ", 1)}

VerifyCall(token) ==
    /\ vcall.pc = "idle"
    /\ vcall' = IF SecretKeyMissing
                THEN [NoCall EXCEPT !.pc = "returned", !.token = token, !.result = RequestFailed]
                ELSE [NoCall EXCEPT !.pc = "awaiting", !.token = token, !.axios = InFlight]
    /\ UNCHANGED <<env, hits, reqs>>

VerifyReturn(o) ==
    /\ vcall.pc = "awaiting"
    /\ vcall' = [vcall EXCEPT !.pc = "returned", !.axios = o,
                               !.result = verifyRecaptchaReturn(vcall.token, o)]
    /\ UNCHANGED <<env, hits, reqs>>

NextVerify ==
    \/ \E token \in Tokens : VerifyCall(token) /\ UNCHANGED audit
    \/ \E o \in AxiosOutcomes : VerifyReturn(o) /\ UNCHANGED audit

SpecVerify == Init /\ [][NextVerify]_vars

----------------------------------------------------------------------------
(* Concurrent requests: two connections served at once, their steps        *)
(* interleaved in any order, with the account kept                         *)

LoadConns == {"c1", "c2"}
LoadIPs == {"10.0.0.1"}
LoadOrigins == {"https://jaide.care"}
LoadBodies == {Baseline}
LoadEnvs ==
    {e \in Envs : /\ e.EMAIL_SERVICE \in {"resend", "smtp"}
                  /\ e.RESEND_API_KEY # ""
                  /\ e.RECAPTCHA_SECRET_KEY # ""
                  /\ e.EMAIL_TO = <<>>}

\* the service answers success, or the call fails on the network
LoadAxiosOutcomes ==
    {o \in AxiosOutcomes : \/ o.kind = "reject" /\ o.why = "network"
                           \/ o.kind = "resolve" /\ o.data.success = "true"}
LoadSendOutcomes == {"accepted"}

InitLoad ==
    /\ env \in LoadEnvs
    /\ hits = [ip \in IPs |-> 0]
    /\ reqs = [c \in LoadConns |-> Idle]
    /\ vcall = NoCall
    /\ audit = NoAudit(LoadConns)

NextLoad ==
    \/ \E c \in LoadConns, ip \in LoadIPs, origin \in LoadOrigins, b \in LoadBodies :
          Arrive(c, ip, origin, b) /\ Account(c)
    \/ \E c \in LoadConns, o \in LoadAxiosOutcomes : AxiosSettle(c, o) /\ Account(c)
    \/ \E c \in LoadConns, ok \in BOOLEAN : TransportVerifySettle(c, ok) /\ Account(c)
    \/ \E c \in LoadConns, i \in 1..2, outcome \in LoadSendOutcomes :
          SendSettle(c, i, outcome) /\ Account(c)
    \/ \E c \in LoadConns : Close(c) /\ Account(c)
    \/ \E ip \in LoadIPs : WindowExpire(ip) /\ AccountExpiry(ip)

SpecLoad == InitLoad /\ [][NextLoad]_vars

----------------------------------------------------------------------------
(* Properties *)

Req(c) == reqs[c]
Arrived == {c \in Conns : Req(c).pc # "idle"}
ValidationRan(r) == \E i \in 1..Len(r.stages) : r.stages[i] = "validation"
Verified(r) == r.recaptchaResult.type = "object" /\ r.recaptchaResult.success = "true"
AllAccepted(r) == Len(r.sends) = 2 /\ \A i \in 1..2 : r.sends[i].st = "accepted"

\* C1: when verifyRecaptcha returns an object whose success is not true, the
\* request sends no email and is answered 400 with success false.
C1_FailedVerificationSendsNothing ==
    \A c \in Arrived :
        (Req(c).recaptchaResult.type = "object" /\ Req(c).recaptchaResult.success # "true")
        => /\ Req(c).sends = <<>>
           /\ Req(c).dispatches = 0
           /\ Req(c).res.status = 400
           /\ Req(c).res.success = FALSE
           /\ Req(c).res.message = "reCAPTCHA verification failed. Please try again."

\* the service answered with an object that lacks success: true
C1_Witness ==
    \E c \in Arrived :
        /\ Req(c).axios.kind = "resolve"
        /\ Req(c).recaptchaResult.type = "object"
        /\ Req(c).recaptchaResult.success = "undefined"
        /\ Req(c).res.status = 400

\* the backend can send: the Resend client exists, or transporter.verify() passed
BackendReady(r) ==
    IF env.EMAIL_SERVICE = "resend" THEN env.RESEND_API_KEY # "" ELSE r.transportVerify = "ok"

TwoSends(r) ==
    /\ Len(r.sends) = 2
    /\ r.sends[1].to = (IF env.EMAIL_TO = <<>> THEN DefaultEmailTo ELSE env.EMAIL_TO)
    /\ r.sends[2].to = NormalizeEmail(r.raw["email"])

\* C2 as stated: a valid submission whose verification succeeded ends with
\* exactly two sends attempted, one to the operator address and one to the
\* submitter's normalized address, whatever the backend.
C2_AlwaysTwoSends ==
    \A c \in Arrived :
        (Req(c).pc = "done" /\ Req(c).errors = <<>> /\ Verified(Req(c))) => TwoSends(Req(c))

\* C2 amended: a valid submission whose verification succeeded has exactly two
\* sends attempted, one to the operator address and one to the submitter's
\* normalized address, as soon as the backend can send (the Resend client is
\* configured, or transporter.verify() has passed); while it cannot, no send
\* is attempted.
C2_TwoSendsWhenBackendReady ==
    \A c \in Arrived :
        /\ (Req(c).errors = <<>> /\ Verified(Req(c)) /\ BackendReady(Req(c))) => TwoSends(Req(c))
        /\ ~BackendReady(Req(c)) => Req(c).sends = <<>>

\* two sends over SMTP, to the default operator address and to an address that
\* normalizeEmail changed
C2_Witness ==
    \E c \in Arrived :
        /\ Verified(Req(c)) /\ Req(c).transportVerify = "ok"
        /\ env.EMAIL_TO = <<>>
        /\ Len(Req(c).sends) = 2
        /\ Req(c).sends[2].to # Req(c).raw["email"]

\* C3: the sixth request of a client within one window (and every later one)
\* is answered 429 by the limiter, before validation, whatever its payload.
C3_SixthIsRateLimited ==
    \A c \in Arrived :
        Req(c).rateLimit > RateMax
        => /\ Req(c).res.status = 429
           /\ Req(c).pc = "done"
           /\ ~ValidationRan(Req(c))
           /\ Req(c).verifyCalls = 0 /\ Req(c).sends = <<>>

\* a sixth request with a valid payload, refused
C3_Witness ==
    \E c \in Arrived :
        /\ Req(c).rateLimit = RateMax + 1
        /\ Req(c).raw = Baseline
        /\ Req(c).res.status = 429

\* C4: the answer is 200 only if both sends were accepted; when a send fails
\* or the dispatch raises, the answer is 500 with the generic message.
C4_SuccessOnlyIfBothAccepted ==
    \A c \in Arrived :
        /\ Req(c).res.status = 200 => AllAccepted(Req(c))
        /\ (Req(c).pc = "done" /\ Req(c).dispatches = 1 /\ ~AllAccepted(Req(c)))
           => /\ Req(c).res.status = 500
              /\ Req(c).res.success = FALSE
              /\ Req(c).res.message = GenericError

\* C5: a request whose Origin is not in the allow-list stops at the CORS
\* layer: no validation, no verification call, no send.
C5_ForeignOriginStopsAtCors ==
    \A c \in Arrived :
        Req(c).origin \notin AllowedOrigins
        => /\ ~ValidationRan(Req(c))
           /\ Req(c).verifyCalls = 0
           /\ Req(c).sends = <<>>

\* The rule of each field as the specification states it.
RuleViolated(b, f) ==
    CASE f \in {"First-Name", "Last-Name"} ->
            ~(IsLength(Trim(Val(b, f)), 2, 50) /\ MatchesName(Trim(Val(b, f))))
      [] f = "email" -> ~IsEmail(Val(b, f))
      [] f = "field" -> Trim(Val(b, f)) = <<>>
      [] f = "name-2" -> ~IsLength(Trim(Val(b, f)), 2, 100)
      [] f = "field-2" -> StrLen(Trim(Val(b, f))) > 1000
      [] f = "checkbox" -> Val(b, f) # On
      [] f = "g-recaptcha-response" -> Val(b, f) = <<>>

ErrorPaths(errors) == {errors[i].path : i \in 1..Len(errors)}

\* C6: a submission in which exactly one field violates its rule is answered
\* 400 "Validation failed" with errors for that field and for no other.
C6_SingleViolationReported ==
    \A c \in Arrived : \A f \in Fields :
        (Req(c).res.status # 429 /\ {g \in Fields : RuleViolated(Req(c).raw, g)} = {f})
        => /\ Req(c).res.status = 400
           /\ Req(c).res.message = "Validation failed"
           /\ ErrorPaths(Req(c).res.errors) = {f}

StageOrder == <<"cors", "limiter", "validation", "verification", "dispatch">>

\* C7: the stages of a request are run in the fixed order, each at most once:
\* no verification call after a failed validation, exactly one after a passed
\* one, exactly one dispatch after a successful verification and none after a
\* failed one, and never more than the two sends of that one dispatch.
C7_StagesInOrderOnce ==
    \A c \in Arrived :
        LET r == Req(c) IN
        /\ r.stages = SubSeq(StageOrder, 1, Len(r.stages))
        /\ r.errors # <<>> => r.verifyCalls = 0 /\ r.axiosCalls = 0
        /\ (ValidationRan(r) /\ r.errors = <<>>) => r.verifyCalls = 1
        /\ r.axiosCalls <= 1
        /\ (r.axios.kind \in {"reject", "resolve"} /\ Verified(r)) => r.dispatches = 1
        /\ ~Verified(r) => r.dispatches = 0 /\ r.sends = <<>>
        /\ Len(r.sends) <= 2

\* a request that ran every stage and whose send failed
C7_Witness ==
    \E c \in Arrived :
        /\ Req(c).pc = "done"
        /\ Req(c).stages = StageOrder
        /\ Len(Req(c).sends) = 2
        /\ \E i \in 1..2 : Req(c).sends[i].st = "rejected"
        /\ Req(c).verifyCalls = 1 /\ Req(c).dispatches = 1

\* C8: no send is started unless the backend can send: with Resend the API key
\* was configured, with SMTP transporter.verify() has passed (it is neither
\* pending nor failed); when the precondition fails, nothing is sent and the
\* answer is the generic 500.
C8_NoSendBeforeBackendReady ==
    \A c \in Arrived :
        LET r == Req(c) IN
        /\ r.sends # <<>> => BackendReady(r)
        /\ r.transportVerify \in {"pending", "failed"} => r.sends = <<>>
        /\ (r.dispatches = 1 /\ r.pc = "done" /\ ~BackendReady(r))
           => /\ r.sends = <<>>
              /\ r.res.status = 500
              /\ r.res.message = GenericError

\* transporter.verify() failed
C8_Witness ==
    \E c \in Arrived :
        /\ Req(c).transportVerify = "failed"
        /\ Req(c).sends = <<>>
        /\ Req(c).res.status = 500

\* the outbound call failed: no answer, a status outside 2xx, or a body that
\* is no JSON object
TransportFailure(o) ==
    o.kind = "reject" \/ (o.kind = "resolve" /\ o.data.type \in {"string", "null"})

\* C9: whenever the outbound call fails (no answer, a status outside 2xx, a
\* malformed body), verifyRecaptcha returns the failure with the one code
\* 'request-failed' and the handler answers 400.
C9_TransportFailureIsRequestFailed ==
    \A c \in Arrived :
        LET r == Req(c) IN
        TransportFailure(r.axios)
        => /\ r.recaptchaResult = RequestFailed
           /\ r.res.status = 400

\* C10: verifyRecaptcha called with an empty token returns a failure, whatever
\* the service answers.
C10_EmptyTokenFails ==
    (vcall.pc = "returned" /\ vcall.token = <<>>)
    => vcall.result.type = "object" /\ vcall.result.success = "false"

\* the requests on connections now, under any number of connections
Served == {c \in DOMAIN reqs : reqs[c].pc # "idle"}

\* C11 (as stated): for any client and any one window of the limiter, at most
\* 5 verification calls and at most 10 sends are made on behalf of that client
\* while the window is open, and a rate-limited request makes none.
C11_CallsMadeInWindowBounded ==
    /\ \A ip \in IPs :
          /\ Live(ip).verify <= RateMax
          /\ Live(ip).sends <= 2 * RateMax
    /\ \A c \in Served :
          reqs[c].rateLimit > RateMax => reqs[c].verifyCalls = 0 /\ reqs[c].sends = <<>>

\* C11 (amended): the requests of one client that arrived in one window of the
\* limiter make between them at most 5 verification calls and at most 10
\* sends, whenever these are made, over any interleaving of concurrent
\* requests; a rate-limited request makes none; the verification calls are
\* all made while the window of arrival is open.
C11_CallsOfWindowArrivalsBounded ==
    /\ \A ip \in IPs : \A k \in 1..(MaxSpan + 1) :
          /\ audit.made[ip][k].verify <= RateMax
          /\ audit.made[ip][k].sends <= 2 * RateMax
    /\ \A ip \in IPs : audit.late[ip].verify = 0
    /\ \A c \in Served :
          reqs[c].rateLimit > RateMax => reqs[c].verifyCalls = 0 /\ reqs[c].sends = <<>>

\* five requests of the current window have made five verification calls and
\* ten sends, a sixth is refused, and a request of the window before has made
\* its two sends in the meantime
C11_Witness ==
    \E ip \in IPs :
        /\ audit.made[ip][1] = [verify |-> RateMax, sends |-> 2 * RateMax]
        /\ audit.made[ip][2].sends = 2
        /\ audit.late[ip].sends = 2
        /\ \E c \in Served :
              /\ reqs[c].ip = ip
              /\ reqs[c].rateLimit = RateMax + 1
              /\ reqs[c].res.status = 429

=============================================================================
